---- MODULE Spec2Model ----
(***************************************************************************)
(* A model of the local backend of woquendo/my-playground: the request     *)
(* handler MALProxyHandler of server.py (and of its older copy,            *)
(* site/server.py) running under the single-threaded HTTPServer.           *)
(*                                                                         *)
(* Strings that the code inspects character by character are sequences of  *)
(* tokens: a request path is a sequence such as <<"/", "data", "/",        *)
(* "missing", ".json">>, so that startswith, equality and splitext are     *)
(* computed on it. A query string is the sequence of its key=value pairs.  *)
(* A fetched page is the sequence of the parts of the markup the regular   *)
(* expressions look at.                                                    *)
(***************************************************************************)
EXTENDS Integers, Sequences, FiniteSets, TLC

VARIABLES
    server,    \* which of the two files runs: "root" (server.py) or "site"
    store,     \* the five JSON documents under data/
    before,    \* the documents as they were when the last request was taken
    waiting,   \* a client has connected and waits to be taken by the server
    accepted,  \* requests the server has taken so far
    pc,        \* the one handler thread: "idle", "fetching" or "hung"
    cur        \* the request taken last: the request, the outbound fetch it
               \* issued, the page fetched and the response sent

vars == <<server, store, before, waiting, accepted, pc, cur>>

----------------------------------------------------------------------------
(* Bounds of the model *)

\* requests the server takes up in one behaviour
MaxRequests == 2
\* how many times a query string gives a key: not at all, once, or twice
\* (the case of a repeated parameter)
Repeats == {0, 1, 2}
\* distinct identifiers on the long pages (more than the limit of 100)
ManyIds == 150

----------------------------------------------------------------------------
(* Sequences *)

Range(s) == {s[i] : i \in DOMAIN s}

SeqsOf(S, lengths) == UNION {[1..k -> S] : k \in lengths}

Take(s, n) == SubSeq(s, 1, IF Len(s) < n THEN Len(s) ELSE n)

\* str.startswith
startswith(s, prefix) ==
    /\ Len(prefix) <= Len(s)
    /\ SubSeq(s, 1, Len(prefix)) = prefix

----------------------------------------------------------------------------
(* Query strings: urllib.parse.parse_qs and params.get(key, [default])[0] *)

\* parse_qs keeps the pairs in order and, keep_blank_values being off,
\* drops every pair whose value is blank
parse_qs(query) == SelectSeq(query, LAMBDA kv : kv.v # "")

ValuesOf(params, key) == SelectSeq(params, LAMBDA kv : kv.k = key)

\* params.get(key, [default])[0]: variant that takes the last of the values
GetParamLast(query, key, default) ==
    LET vs == ValuesOf(parse_qs(query), key)
    IN  IF vs = <<>> THEN default ELSE vs[Len(vs)].v

\* params.get(key, [default])[0]
GetParam(query, key, default) ==
    LET vs == ValuesOf(parse_qs(query), key)
    IN  IF vs = <<>> THEN default ELSE vs[1].v

\* urllib.parse.quote on the values of the model: a space is escaped, the
\* unreserved characters pass
quote(s) == IF s = "a b" THEN "a%20b" ELSE s

----------------------------------------------------------------------------
(* Responses *)

NoBody == [kind |-> "empty"]

NoResp == [status |-> 0, cors |-> FALSE, methods |-> "", ctype |-> "",
           body |-> [kind |-> "none"]]

\* send_error called with the status alone: the page carries no message
send_error_bare(code, message) ==
    [status |-> code, cors |-> FALSE, methods |-> "", ctype |-> "text/html",
     body |-> [kind |-> "error_page", message |-> ""]]

\* BaseHTTPRequestHandler.send_error as the handlers call it: the status, an
\* HTML error page that carries the message, and no cross-origin header
send_error(code, message) ==
    [status |-> code, cors |-> FALSE, methods |-> "", ctype |-> "text/html",
     body |-> [kind |-> "error_page", message |-> message]]

\* send_response(200) + Content-Type application/json +
\* Access-Control-Allow-Origin: * + json.dumps(value)
JsonResponse(value, methods) ==
    [status |-> 200, cors |-> TRUE, methods |-> methods,
     ctype |-> "application/json",
     body |-> [kind |-> "json", json |-> value]]

----------------------------------------------------------------------------
(* The served directory and SimpleHTTPRequestHandler *)

\* regular files and directories of the directory the server is started in
\* (paths as translate_path normalises them: no trailing slash)
Files == {<<"/", "app", ".html">>, <<"/", "style", ".css">>}

Dirs == {<<"/">>, <<"/", "data">>}

endswith_slash(path) == Len(path) > 0 /\ path[Len(path)] = "/"

\* SimpleHTTPRequestHandler.translate_path: the query is already apart, the
\* trailing slash is dropped
translate_path(path) ==
    IF Len(path) > 1 /\ endswith_slash(path) THEN SubSeq(path, 1, Len(path) - 1)
    ELSE path

isfile(fp) == fp \in Files

isdir(fp) == fp \in Dirs

ExtTokens == {".html", ".css", ".png", ".json"}

\* os.path.splitext(path)[1] # '': the last component ends in a dot suffix
\* and is not only that suffix (a leading dot starts no extension)
has_extension(path) ==
    /\ Len(path) >= 2
    /\ path[Len(path)] \in ExtTokens
    /\ path[Len(path) - 1] # "/"

FileResponse(fp) ==
    [status |-> 200, cors |-> FALSE, methods |-> "", ctype |-> "file",
     body |-> [kind |-> "file", file |-> fp]]

\* SimpleHTTPRequestHandler.do_GET (send_head): a directory asked for
\* without its slash is redirected, a directory without an index page is
\* listed, a regular file is sent, anything else is 404
SimpleHTTPRequestHandler_do_GET(path) ==
    LET fp == translate_path(path)
    IN  IF isdir(fp)
        THEN IF ~endswith_slash(path)
             THEN [status |-> 301, cors |-> FALSE, methods |-> "",
                   ctype |-> "", body |-> NoBody]
             ELSE IF isfile(fp \o <<"/", "index", ".html">>)
             THEN FileResponse(fp \o <<"/", "index", ".html">>)
             ELSE [status |-> 200, cors |-> FALSE, methods |-> "",
                   ctype |-> "text/html",
                   body |-> [kind |-> "listing", dir |-> fp]]
        ELSE IF isfile(fp) /\ ~endswith_slash(path)
        THEN FileResponse(fp)
        ELSE send_error(404, "File not found")

app_html == <<"/", "app", ".html">>

spa_routes == {<<"/", "schedule">>, <<"/", "shows">>, <<"/", "music">>,
               <<"/", "import">>}

data_prefix == <<"/", "data", "/">>

\* _handle_spa_routing
handle_spa_routing(path) ==
    IF path \in spa_routes
    THEN SimpleHTTPRequestHandler_do_GET(app_html)
    ELSE IF isfile(translate_path(path))
    THEN SimpleHTTPRequestHandler_do_GET(path)
    ELSE IF ~startswith(path, data_prefix) /\ ~has_extension(path)
    THEN SimpleHTTPRequestHandler_do_GET(app_html)
    ELSE SimpleHTTPRequestHandler_do_GET(path)

----------------------------------------------------------------------------
(* The playlist page and its extraction *)

\* the number of identifiers a scrape answers with at most
Limit == 100

\* A page is the sequence of the parts the two patterns look at:
\*   [tag |-> "title", text |-> <<words>>]  a <title>...</title> element
\*   [tag |-> "videoId", id |-> n]          "videoId":"<11 characters>", n the token
\*   [tag |-> "text", id |-> n]             anything else, such as a videoId
\*                                          marker whose token is not 11 long
VideoPart(n) == [tag |-> "videoId", id |-> n]

TextPart(n) == [tag |-> "text", id |-> n]

TitlePart(words) == [tag |-> "title", text |-> words]

\* re.findall(video_id_pattern, html): the tokens of the matches, in document
\* order
findall(html) ==
    LET hits == SelectSeq(html, LAMBDA part : part.tag = "videoId")
    IN  [i \in 1..Len(hits) |-> hits[i].id]

\* one turn of the loop: if video_id not in seen: seen.add; append
DedupeStep(st, video_id) ==
    IF video_id \in st.seen THEN st
    ELSE [seen |-> st.seen \cup {video_id},
          video_ids |-> Append(st.video_ids, video_id)]

\* for video_id in matches[lo..hi], in order, from the loop state st (the
\* range is walked in two halves, the first one evaluated before the second
\* is entered, to keep the evaluation shallow)
RECURSIVE DedupeRange(_, _, _, _)
DedupeRange(matches, lo, hi, st) ==
    IF lo > hi THEN st
    ELSE IF lo = hi THEN DedupeStep(st, matches[lo])
    ELSE LET mid == (lo + hi) \div 2
             half == DedupeRange(matches, lo, mid, st)
         IN  IF Len(half.video_ids) >= 0
             THEN DedupeRange(matches, mid + 1, hi, half)
             ELSE half

\* seen = set(); the loop over matches
Dedupe(matches) ==
    DedupeRange(matches, 1, Len(matches),
                [seen |-> {}, video_ids |-> <<>>]).video_ids

\* the extraction with the cut applied to the matches, before the duplicates
\* are removed
ExtractCutFirst(html) == Dedupe(Take(findall(html), Limit))

\* the extraction without the removal of duplicates
ExtractNoDedupe(html) == Take(findall(html), Limit)

\* matches = findall; dedupe in order; video_ids = video_ids[:100]
ExtractVideoIds(html) == Take(Dedupe(findall(html)), Limit)

\* str.replace(' - YouTube', ''): every occurrence is removed
replace_suffix(words) == SelectSeq(words, LAMBDA w : w # " - YouTube")

\* str.strip(): the whitespace at both ends is removed
RECURSIVE strip(_)
strip(words) ==
    IF words = <<>> THEN words
    ELSE IF Head(words) = " " THEN strip(Tail(words))
    ELSE IF words[Len(words)] = " " THEN strip(SubSeq(words, 1, Len(words) - 1))
    ELSE words

\* re.search(r'<title>(.+?)</title>', html): the first title element that
\* has content; playlist_name stays the playlist id without one (the pages
\* modelled have no empty title element followed by another one, where the
\* expression would match across the two)
PlaylistName(html, playlist_id) ==
    LET titles == SelectSeq(html, LAMBDA part :
                      part.tag = "title" /\ part.text # <<>>)
    IN  IF titles = <<>> THEN <<playlist_id>>
        ELSE strip(replace_suffix(titles[1].text))

\* the result the scrape answers with after a fetch that succeeded
ScrapeResult(html, playlist_id) ==
    LET video_ids == ExtractVideoIds(html)
    IN  [success |-> TRUE, playlistId |-> playlist_id,
         playlistName |-> PlaylistName(html, playlist_id),
         videoIds |-> video_ids, videoCount |-> Len(video_ids)]

----------------------------------------------------------------------------
(* What a GET handler does before it blocks: it answers, or it issues the  *)
(* outbound fetch                                                          *)

NoUrl == [site |-> "", page |-> "", arg |-> "", status |-> "",
          timeout |-> FALSE]

Respond(resp) == [fetch |-> FALSE, resp |-> resp, url |-> NoUrl]

Fetch(url) == [fetch |-> TRUE, resp |-> NoResp, url |-> url]

\* the branch of _handle_proxy for /proxy-anime, up to urlopen
proxy_anime(query) ==
    LET anime_id == GetParam(query, "id", "")
    IN  IF anime_id = ""
        THEN Respond(send_error(400, "Missing anime id parameter"))
        ELSE Fetch([site |-> "myanimelist.net", page |-> "anime",
                    arg |-> anime_id, status |-> "", timeout |-> FALSE])

\* the list branch without the test on username
proxy_list_unchecked(query) ==
    Fetch([site |-> "myanimelist.net", page |-> "animelist",
           arg |-> quote(GetParam(query, "username", "")),
           status |-> GetParam(query, "status", "1"), timeout |-> FALSE])

\* the branch of _handle_proxy for /proxy (and do_GET of site/server.py),
\* up to urlopen
proxy_list(query) ==
    LET username == GetParam(query, "username", "")
        status == GetParam(query, "status", "1")
    IN  IF username = ""
        THEN Respond(send_error(400, "Missing username parameter"))
        ELSE Fetch([site |-> "myanimelist.net", page |-> "animelist",
                    arg |-> quote(username), status |-> status,
                    timeout |-> FALSE])

\* _handle_proxy, up to urlopen
handle_proxy(path, query) ==
    IF startswith(path, <<"/", "proxy", "-anime">>) THEN proxy_anime(query)
    ELSE proxy_list(query)

\* _handle_playlist_scrape, up to urlopen
handle_playlist_scrape(query) ==
    LET playlist_id == GetParam(query, "id", "")
    IN  IF playlist_id = ""
        THEN Respond(send_error(400, "Missing playlist id parameter"))
        ELSE Fetch([site |-> "www.youtube.com", page |-> "playlist",
                    arg |-> playlist_id, status |-> "", timeout |-> TRUE])

\* MALProxyHandler.do_GET of server.py
root_do_GET(path, query) ==
    IF startswith(path, <<"/", "proxy">>) THEN handle_proxy(path, query)
    ELSE IF startswith(path, <<"/", "scrape-playlist">>)
    THEN handle_playlist_scrape(query)
    ELSE Respond(handle_spa_routing(path))

\* MALProxyHandler.do_GET of site/server.py
site_do_GET(path, query) ==
    IF ~startswith(path, <<"/", "proxy">>)
    THEN Respond(SimpleHTTPRequestHandler_do_GET(path))
    ELSE proxy_list(query)

GetStep(srv, req) ==
    IF srv = "root" THEN root_do_GET(req.path, req.query)
    ELSE site_do_GET(req.path, req.query)

----------------------------------------------------------------------------
(* What a GET handler does once urlopen has returned or raised *)

\* the scrape with its URLError branch answering 500 as the proxies do
scrape_after_fetch_500(url, outcome) ==
    IF outcome.kind = "ok"
    THEN JsonResponse(ScrapeResult(outcome.html, url.arg), "")
    ELSE send_error(500, "Failed to fetch playlist")

\* _handle_playlist_scrape from the with block on
scrape_after_fetch(url, outcome) ==
    IF outcome.kind = "ok"
    THEN JsonResponse(ScrapeResult(outcome.html, url.arg), "")
    ELSE IF outcome.kind = "URLError"
    THEN JsonResponse([success |-> FALSE,
                       error |-> "Failed to fetch playlist"], "")
    ELSE JsonResponse([success |-> FALSE, error |-> "Server error"], "")

\* _handle_proxy from the with block on (both branches are alike)
proxy_after_fetch(url, outcome) ==
    IF outcome.kind = "ok"
    THEN JsonResponse([html |-> outcome.html], "")
    ELSE IF outcome.kind = "URLError"
    THEN send_error(500, "Error fetching MAL page")
    ELSE send_error(500, "Server error")

----------------------------------------------------------------------------
(* Saving: do_POST *)

DocNames == {"shows.json", "schedule_updates.json", "titles.json",
             "songs.json", "playlists.json"}

Absent == [shape |-> "absent", key |-> "", value |-> ""]

\* the file after open(..., 'w') succeeded and the write did not
Truncated == [shape |-> "truncated", key |-> "", value |-> ""]

\* json.dump(data, f) with no envelope whatever the route
DumpedRaw(key, data) == [shape |-> "raw", key |-> "", value |-> data]

\* what json.dump leaves in the file: {key: data}, or data itself on the
\* routes that dump the payload as it came (key "")
Dumped(key, data) ==
    IF key = "" THEN [shape |-> "raw", key |-> "", value |-> data]
    ELSE [shape |-> "object", key |-> key, value |-> data]

\* the branches of do_POST: path, file written, key of the envelope, the
\* words of the error message
SaveRoutes(srv) ==
    {[path |-> <<"/", "save-shows">>, file |-> "shows.json",
      key |-> "shows", what |-> "shows"],
     [path |-> <<"/", "save-schedule-updates">>,
      file |-> "schedule_updates.json", key |-> "",
      what |-> "schedule updates"]}
    \cup
    IF srv = "root"
    THEN {[path |-> <<"/", "save-titles">>, file |-> "titles.json",
           key |-> "", what |-> "titles"],
          [path |-> <<"/", "save-songs">>, file |-> "songs.json",
           key |-> "songs", what |-> "songs"],
          [path |-> <<"/", "save-playlists">>, file |-> "playlists.json",
           key |-> "playlists", what |-> "playlists"]}
    ELSE {}

\* the JSON values a client posts
Payloads == {"p1", "p2"}

\* a body is a payload or "bad" (bytes that json.loads rejects)
Bodies == Payloads \cup {"bad"}

\* what the file system does to open and write
IoOutcomes == {"ok", "open fails", "write fails"}

\* self.path == route: the whole request target, so no query string
MatchingRoutes(srv, req) ==
    {r \in SaveRoutes(srv) : req.query = <<>> /\ req.path = r.path}

\* one branch of do_POST: the response and the file afterwards
save_branch(route, body, io, doc) ==
    IF body \notin Payloads
    THEN [resp |-> send_error(500, "Error saving " \o route.what), doc |-> doc]
    ELSE IF io = "open fails"
    THEN [resp |-> send_error(500, "Error saving " \o route.what), doc |-> doc]
    ELSE IF io = "write fails"
    THEN [resp |-> send_error(500, "Error saving " \o route.what),
          doc |-> Truncated]
    ELSE [resp |-> JsonResponse([success |-> TRUE], "POST"),
          doc |-> Dumped(route.key, body)]

----------------------------------------------------------------------------
(* The requests and the pages of the model *)

NoReq == [method |-> "", path |-> <<>>, query |-> <<>>, body |-> ""]

Pair(k, v) == [k |-> k, v |-> v]

\* query strings that give one key not at all, once or twice, with an empty
\* value or with one of two values
QueriesFor(key) ==
    SeqsOf({Pair(key, ""), Pair(key, "a"), Pair(key, "b")}, Repeats)

\* query strings of the routes that read id
IdQueries == QueriesFor("id")

\* query strings of the route that reads username and status: the username
\* given any number of times, a username followed by the status given any
\* number of times, and a status alone
ListQueries ==
    QueriesFor("username")
    \cup {<<Pair("username", "a")>> \o st :
             st \in SeqsOf({Pair("status", "2"), Pair("status", "3")},
                           Repeats)}
    \cup {<<Pair("status", "2")>>}

StaticPaths ==
    {<<"/">>, <<"/", "app", ".html">>, <<"/", "style", ".css">>,
     <<"/", "schedule">>, <<"/", "shows">>, <<"/", "music">>,
     <<"/", "import">>, <<"/", "about">>, <<"/", "missing", ".png">>,
     <<"/", "data">>, <<"/", "data", "/">>, <<"/", "data", "/", "missing">>,
     <<"/", "data", "/", "missing", ".json">>}

GetRequests ==
    {[method |-> "GET", path |-> p, query |-> q, body |-> ""] :
        p \in {<<"/", "proxy", "-anime">>, <<"/", "scrape-playlist">>},
        q \in IdQueries}
    \cup
    {[method |-> "GET", path |-> <<"/", "proxy">>, query |-> q, body |-> ""] :
        q \in ListQueries}
    \cup
    {[method |-> "GET", path |-> p, query |-> <<>>, body |-> ""] :
        p \in StaticPaths}
    \cup
    {[method |-> "GET", path |-> <<"/", "shows">>,
      query |-> <<Pair("id", "a")>>, body |-> ""]}

PostRequests ==
    {[method |-> "POST", path |-> <<"/", p>>, query |-> q, body |-> b] :
        p \in {"save-shows", "save-schedule-updates", "save-titles",
               "save-songs", "save-playlists", "save-other"},
        q \in {<<>>}, b \in Bodies}
    \cup
    {[method |-> "POST", path |-> <<"/", "save-shows">>,
      query |-> <<Pair("id", "a")>>, body |-> "p1"]}

OptionsRequests ==
    {[method |-> "OPTIONS", path |-> p, query |-> <<>>, body |-> ""] :
        p \in {<<"/">>, <<"/", "save-shows">>}}

\* the pages of the anime site
MalPages == {<<TextPart(1)>>, <<TextPart(2)>>}

MalOutcomes ==
    {[kind |-> "ok", html |-> h] : h \in MalPages}
    \cup {[kind |-> k, html |-> <<>>] : k \in {"URLError", "Exception"}}

Iota(n) == [i \in 1..n |-> i]

Parts(ids) == [i \in 1..Len(ids) |-> VideoPart(ids[i])]

\* playlist pages: short scans without and with a repeated identifier, the
\* scan A B A C, pages with more identifiers than the limit, with and
\* without repetitions, and pages with a title (with the site name at its
\* end, with whitespace around it, with the site name also inside it, and
\* followed by a second title) and with markers that do not match
PlaylistPages ==
    {Parts(ids) : ids \in {<<>>, <<1>>, <<1, 1>>, <<1, 2>>, <<2, 1>>,
                           <<1, 2, 1, 3>>}}
    \cup {Parts(Iota(ManyIds)),
          Parts(<<1>> \o Iota(ManyIds)),
          Parts(Iota(Limit) \o Iota(Limit)),
          <<TitlePart(<<"My List", " - YouTube">>), VideoPart(1), TextPart(2),
            VideoPart(1)>>,
          <<TextPart(1), TitlePart(<<" ", "Mix", " ">>)>>,
          <<TitlePart(<<"Best of", " - YouTube", "Rewind", " - YouTube">>),
            VideoPart(1)>>,
          <<TitlePart(<<"First">>), VideoPart(2), TitlePart(<<"Second">>)>>}

PlaylistOutcomes ==
    {[kind |-> "ok", html |-> h] : h \in PlaylistPages}
    \cup {[kind |-> k, html |-> <<>>] : k \in {"URLError", "Exception"}}

----------------------------------------------------------------------------
(* The server: HTTPServer.serve_forever takes one connection at a time     *)

Init ==
    /\ server \in {"root", "site"}
    /\ store = [n \in DocNames |-> Absent]
    /\ before = store
    /\ waiting = FALSE
    /\ accepted = 0
    /\ pc = "idle"
    /\ cur = [req |-> NoReq, url |-> NoUrl, html |-> <<>>, resp |-> NoResp]

\* a client connects; the connection waits in the listen queue until the
\* server takes it
Connect ==
    /\ ~waiting
    /\ waiting' = TRUE
    /\ UNCHANGED <<server, store, before, accepted, pc, cur>>

\* serve_forever: the next connection is taken only when the handler of the
\* previous one has returned
Accept ==
    /\ pc = "idle"
    /\ waiting
    /\ accepted < MaxRequests
    /\ waiting' = FALSE
    /\ before' = store
    /\ accepted' = accepted + 1

do_GET(req) ==
    /\ Accept
    /\ LET step == GetStep(server, req)
       IN  /\ cur' = [req |-> req, url |-> step.url, html |-> <<>>,
                       resp |-> step.resp]
           /\ pc' = IF step.fetch THEN "fetching" ELSE "idle"
    /\ UNCHANGED <<server, store>>

\* urlopen returns a page, or raises (URLError: network, DNS, timeout while
\* connecting, non-2xx; Exception: timeout while reading, undecodable bytes)
FetchReturns(outcome) ==
    /\ pc = "fetching"
    /\ cur' = [cur EXCEPT
                  !.html = outcome.html,
                  !.resp = IF cur.url.page = "playlist"
                           THEN scrape_after_fetch(cur.url, outcome)
                           ELSE proxy_after_fetch(cur.url, outcome)]
    /\ pc' = "idle"
    /\ UNCHANGED <<server, store, before, waiting, accepted>>

\* urlopen without a timeout never returns
FetchHangs ==
    /\ pc = "fetching"
    /\ ~cur.url.timeout
    /\ pc' = "hung"
    /\ UNCHANGED <<server, store, before, waiting, accepted, cur>>

do_POST(req, io) ==
    /\ Accept
    /\ LET routes == MatchingRoutes(server, req)
       IN  IF routes = {}
           THEN /\ cur' = [req |-> req, url |-> NoUrl, html |-> <<>>,
                           resp |-> send_error(404, "Not found")]
                /\ store' = store
           ELSE LET route == CHOOSE r \in routes : TRUE
                    done == save_branch(route, req.body, io, store[route.file])
                IN  /\ cur' = [req |-> req, url |-> NoUrl, html |-> <<>>,
                                resp |-> done.resp]
                    /\ store' = [store EXCEPT ![route.file] = done.doc]
    /\ UNCHANGED <<server, pc>>

do_OPTIONS(req) ==
    /\ Accept
    /\ cur' = [req |-> req, url |-> NoUrl, html |-> <<>>,
               resp |-> [status |-> 200, cors |-> TRUE,
                         methods |-> "POST, GET, OPTIONS", ctype |-> "",
                         body |-> NoBody]]
    /\ UNCHANGED <<server, store, pc>>

Next ==
    \/ Connect
    \/ \E req \in GetRequests : do_GET(req)
    \/ \E outcome \in MalOutcomes :
          cur.url.page # "playlist" /\ FetchReturns(outcome)
    \/ \E outcome \in PlaylistOutcomes :
          cur.url.page = "playlist" /\ FetchReturns(outcome)
    \/ FetchHangs
    \/ \E req \in PostRequests :
          \E io \in IF req.body \in Payloads THEN IoOutcomes ELSE {"ok"} :
              do_POST(req, io)
    \/ \E req \in OptionsRequests : do_OPTIONS(req)

Spec == Init /\ [][Next]_vars

\* the loop of serve_forever: a waiting connection is taken and its request
\* handled up to the response or up to the outbound fetch
Serve ==
    \/ \E req \in GetRequests : do_GET(req)
    \/ \E req \in PostRequests, io \in IoOutcomes : do_POST(req, io)
    \/ \E req \in OptionsRequests : do_OPTIONS(req)

\* serve_forever keeps taking connections whenever its one thread is free;
\* nothing makes an outbound fetch without a timeout return
FairSpec == Spec /\ WF_vars(Serve)

----------------------------------------------------------------------------
(* Vocabulary of the properties *)

Answered == cur.resp # NoResp

IsGet(path) == cur.req.method = "GET" /\ cur.req.path = path

\* the query string gives the key a value that is not empty
Supplies(query, key) == \E i \in DOMAIN query : query[i].k = key /\ query[i].v # ""

SavePaths == {<<"/", "save-shows">>, <<"/", "save-schedule-updates">>,
              <<"/", "save-titles">>, <<"/", "save-songs">>,
              <<"/", "save-playlists">>}

\* the file a save path names
FileOf(path) ==
    CASE path = <<"/", "save-shows">> -> "shows.json"
      [] path = <<"/", "save-schedule-updates">> -> "schedule_updates.json"
      [] path = <<"/", "save-titles">> -> "titles.json"
      [] path = <<"/", "save-songs">> -> "songs.json"
      [] path = <<"/", "save-playlists">> -> "playlists.json"

Wrapped(key, p) == [shape |-> "object", key |-> key, value |-> p]

Unwrapped(p) == [shape |-> "raw", key |-> "", value |-> p]

\* the last request was a POST to the save path of file n, answered with
\* the given status
SaveAnswered(n, status) ==
    /\ cur.req.method = "POST"
    /\ cur.req.query = <<>>
    /\ cur.req.path \in SavePaths
    /\ FileOf(cur.req.path) = n
    /\ cur.resp.status = status

----------------------------------------------------------------------------
(* C1 *)

\* C1: every response server.py sends, whatever the method, route or
\* outcome, carries Access-Control-Allow-Origin: *.
EveryResponseCarriesCORS ==
    (server = "root" /\ Answered) => cur.resp.cors

----------------------------------------------------------------------------
(* C2 *)

\* the document the claim expects after a save of p: an envelope named after
\* the document, except schedule-updates
EnvelopeAsClaimed(n, p) ==
    CASE n = "shows.json" -> Wrapped("shows", p)
      [] n = "titles.json" -> Wrapped("titles", p)
      [] n = "songs.json" -> Wrapped("songs", p)
      [] n = "playlists.json" -> Wrapped("playlists", p)
      [] n = "schedule_updates.json" -> Unwrapped(p)

\* the document the code leaves after a save of p: titles is unwrapped too
EnvelopeAsStored(n, p) ==
    CASE n = "shows.json" -> Wrapped("shows", p)
      [] n = "songs.json" -> Wrapped("songs", p)
      [] n = "playlists.json" -> Wrapped("playlists", p)
      [] n = "titles.json" -> Unwrapped(p)
      [] n = "schedule_updates.json" -> Unwrapped(p)

\* C2 as claimed: after any sequence of saves every stored document is the
\* payload of the most recent successful save to its name in the envelope
\* {"shows": p}, {"titles": p}, {"songs": p}, {"playlists": p}, or the raw
\* payload for schedule-updates: a successful save leaves exactly that, and
\* no other request changes a document.
StoredIsLatestSaveAsClaimed ==
    \A n \in DocNames :
        IF SaveAnswered(n, 200)
        THEN store[n] = EnvelopeAsClaimed(n, cur.req.body)
        ELSE store[n] = before[n]

\* C2 as amended: every stored document is the payload of the most recent
\* successful save to its name, wrapped as {"shows": p}, {"songs": p},
\* {"playlists": p} and unwrapped for schedule-updates and for titles,
\* unless a later save to that name failed while writing, which leaves the
\* file truncated; no other request changes a document.
StoredIsLatestSave ==
    \A n \in DocNames :
        IF SaveAnswered(n, 200)
        THEN store[n] = EnvelopeAsStored(n, cur.req.body)
        ELSE IF SaveAnswered(n, 500)
        THEN store[n] \in {before[n], Truncated}
        ELSE store[n] = before[n]

\* a second save to shows has replaced the document the first one left
SecondSaveStored ==
    /\ server = "root"
    /\ accepted = 2
    /\ cur.req.method = "POST" /\ cur.req.path = <<"/", "save-shows">>
    /\ cur.resp.status = 200
    /\ before["shows.json"] = Wrapped("shows", "p1")
    /\ cur.req.body = "p2"
    /\ store["shows.json"] = Wrapped("shows", "p2")

----------------------------------------------------------------------------
(* C3 *)

\* C3: a GET to /scrape-playlist with a non-empty id is always answered with
\* status 200 (the fetch, which has a timeout, never leaves the handler
\* hanging): {success: true, ...} when the page was fetched and read,
\* {success: false, error} when the fetch or the decoding failed; the only
\* other status of the endpoint is 400, when id is missing.
ScrapeAlwaysAnswers200 ==
    (server = "root" /\ IsGet(<<"/", "scrape-playlist">>)) =>
        /\ pc # "hung"
        /\ Answered =>
             IF Supplies(cur.req.query, "id")
             THEN /\ cur.resp.status = 200
                  /\ cur.resp.body.kind = "json"
                  /\ cur.resp.body.json.success \in BOOLEAN
                  /\ ~cur.resp.body.json.success =>
                        /\ DOMAIN cur.resp.body.json = {"success", "error"}
                        /\ cur.resp.body.json.error # ""
             ELSE cur.resp.status = 400

\* a scrape whose fetch failed was answered 200 with success false
ScrapeFailureAnswered ==
    /\ server = "root" /\ IsGet(<<"/", "scrape-playlist">>)
    /\ Supplies(cur.req.query, "id")
    /\ cur.resp.status = 200
    /\ cur.resp.body.kind = "json"
    /\ ~cur.resp.body.json.success

----------------------------------------------------------------------------
(* C4 *)

\* the request lacks the parameter its route requires
MissingParameter ==
    /\ cur.req.method = "GET"
    /\ \/ /\ cur.req.path = <<"/", "proxy">>
          /\ ~Supplies(cur.req.query, "username")
       \/ /\ server = "root"
          /\ cur.req.path \in {<<"/", "proxy", "-anime">>,
                               <<"/", "scrape-playlist">>}
          /\ ~Supplies(cur.req.query, "id")

\* C4: a GET to /proxy without a username (either file), to /proxy-anime
\* without an id or to /scrape-playlist without an id (server.py, which alone
\* has these routes) is answered 400, and no outbound fetch is issued for it.
MissingParameterIs400 ==
    MissingParameter =>
        /\ pc = "idle"
        /\ cur.url = NoUrl
        /\ cur.resp.status = 400

\* /proxy asked with a status and no username was answered 400 with no fetch
MissingUsernameAnswered ==
    /\ IsGet(<<"/", "proxy">>)
    /\ cur.req.query = <<Pair("status", "2")>>
    /\ cur.resp.status = 400
    /\ cur.url = NoUrl

----------------------------------------------------------------------------
(* C5 *)

AppDocument == FileResponse(app_html)

KnownAppRoutes == {<<"/", "schedule">>, <<"/", "shows">>, <<"/", "music">>,
                   <<"/", "import">>}

\* C5: for a GET that is neither a proxy nor a scrape route, if the path is
\* a known app route, or no regular file exists at it and it neither starts
\* with /data/ nor has an extension, the response is the root application
\* document; if no regular file exists and the path starts with /data/ or has
\* an extension, the response is 404 and not the root document.
AppRouteFallback ==
    (/\ server = "root"
     /\ cur.req.method = "GET"
     /\ ~startswith(cur.req.path, <<"/", "proxy">>)
     /\ ~startswith(cur.req.path, <<"/", "scrape-playlist">>)
     /\ Answered) =>
        LET path == cur.req.path
            regular == translate_path(path) \in Files
        IN  IF \/ path \in KnownAppRoutes
               \/ /\ ~regular
                  /\ ~startswith(path, <<"/", "data", "/">>)
                  /\ ~has_extension(path)
            THEN cur.resp = AppDocument
            ELSE ~regular =>
                    /\ cur.resp.status = 404
                    /\ cur.resp # AppDocument

----------------------------------------------------------------------------
(* C6 *)

ScrapeSucceeded ==
    /\ server = "root"
    /\ IsGet(<<"/", "scrape-playlist">>)
    /\ cur.resp.body.kind = "json"
    /\ cur.resp.body.json.success

\* C6: in every successful scrape response videoIds has no duplicate entry
\* and at most 100 entries, and videoCount is the length of videoIds.
ScrapeResultWellFormed ==
    ScrapeSucceeded =>
        LET result == cur.resp.body.json
        IN  /\ Cardinality(Range(result.videoIds)) = Len(result.videoIds)
            /\ Len(result.videoIds) <= 100
            /\ result.videoCount = Len(result.videoIds)

\* a page that repeats each of its 100 identifiers was scraped
RepeatedIdsScraped ==
    /\ ScrapeSucceeded
    /\ Len(findall(cur.html)) = 200
    /\ cur.resp.body.json.videoCount = 100

----------------------------------------------------------------------------
(* C7 *)

Occurrences(query, key) == Cardinality({i \in DOMAIN query : query[i].k = key})

\* the value of the last occurrence of the key
LastOccurrence(query, key) ==
    LET i == CHOOSE i \in DOMAIN query :
                 /\ query[i].k = key
                 /\ \A j \in DOMAIN query : j > i => query[j].k # key
    IN  query[i].v

\* the value of the first occurrence of the key that has a value
FirstGiven(query, key) ==
    LET i == CHOOSE i \in DOMAIN query :
                 /\ query[i].k = key /\ query[i].v # ""
                 /\ \A j \in DOMAIN query :
                       j < i => ~(query[j].k = key /\ query[j].v # "")
    IN  query[i].v

\* the key the page of the outbound request takes its argument from
ArgKey == IF cur.url.page = "animelist" THEN "username" ELSE "id"

\* C7 as claimed: when id, username or status occurs more than once in the
\* query string, the value the handler uses (in the address it fetches) is
\* that of the last occurrence.
RepeatedParameterLastWins ==
    cur.url # NoUrl =>
        /\ Occurrences(cur.req.query, ArgKey) > 1 =>
              cur.url.arg = LastOccurrence(cur.req.query, ArgKey)
        /\ (cur.url.page = "animelist"
              /\ Occurrences(cur.req.query, "status") > 1) =>
              cur.url.status = LastOccurrence(cur.req.query, "status")

\* C7 as amended: when id, username or status occurs more than once in the
\* query string, the value the handler uses is that of the first occurrence
\* that has a non-empty value; occurrences with an empty value are ignored.
RepeatedParameterFirstWins ==
    cur.url # NoUrl =>
        /\ Occurrences(cur.req.query, ArgKey) > 1 =>
              /\ Supplies(cur.req.query, ArgKey)
              /\ cur.url.arg = FirstGiven(cur.req.query, ArgKey)
        /\ (cur.url.page = "animelist"
              /\ Occurrences(cur.req.query, "status") > 1) =>
              /\ Supplies(cur.req.query, "status")
              /\ cur.url.status = FirstGiven(cur.req.query, "status")

\* a fetch was issued for a request that gives id twice, first empty
RepeatedIdFetched ==
    /\ cur.req.query = <<Pair("id", ""), Pair("id", "b")>>
    /\ cur.url.page = "anime"
    /\ cur.url.arg = "b"

----------------------------------------------------------------------------
(* C8 *)

\* the request went to a proxy, scrape or save handler
HandlerRequest ==
    \/ cur.req.method = "POST"
    \/ /\ cur.req.method = "GET"
       /\ \/ startswith(cur.req.path, <<"/", "proxy">>)
          \/ /\ server = "root"
             /\ startswith(cur.req.path, <<"/", "scrape-playlist">>)

\* the response reports a failure of such a request: an error status, or a
\* scrape result with success false
IsFailure ==
    /\ HandlerRequest
    /\ \/ cur.resp.status \in {400, 404, 500}
       \/ /\ cur.resp.body.kind = "json"
          /\ "success" \in DOMAIN cur.resp.body.json
          /\ ~cur.resp.body.json.success

\* C8 as claimed: every failure response (400, 500, 404, failed scrape) has a
\* JSON body with a human-readable message field.
FailuresAreJson ==
    IsFailure =>
        /\ cur.resp.body.kind = "json"
        /\ \E f \in {"error", "message"} :
              /\ f \in DOMAIN cur.resp.body.json
              /\ cur.resp.body.json[f] # ""

\* C8 as amended: every failure response carries a human-readable message: a
\* failed scrape in the error field of its JSON body, every 400, 404 and 500
\* response in the HTML error page that send_error writes, which is not JSON.
FailuresCarryMessage ==
    IsFailure =>
        IF cur.resp.status = 200
        THEN /\ cur.resp.body.kind = "json"
             /\ cur.resp.ctype = "application/json"
             /\ cur.resp.body.json.error # ""
        ELSE /\ cur.resp.body.kind = "error_page"
             /\ cur.resp.ctype = "text/html"
             /\ cur.resp.body.message # ""

\* a save whose body was no JSON was answered 500 with an error page
SaveFailureAnswered ==
    /\ cur.req.method = "POST" /\ cur.req.path = <<"/", "save-songs">>
    /\ cur.req.body = "bad"
    /\ cur.resp.status = 500
    /\ cur.resp.body.kind = "error_page"

----------------------------------------------------------------------------
(* C9 *)

\* C9: while the outbound fetch of one proxy request hangs, another request
\* that arrives is still taken up by the server.
OthersServedDuringHang ==
    [](pc = "hung" /\ waiting /\ accepted < MaxRequests => <>~waiting)

----------------------------------------------------------------------------
(* C10 *)

\* where an identifier occurs first among the matches
FirstIndex(matches, id) ==
    CHOOSE i \in DOMAIN matches :
        matches[i] = id /\ \A j \in 1..(i - 1) : matches[j] # id

\* C10: videoIds is the sequence of the distinct matched identifiers in the
\* order of their first occurrence, cut to its first 100 entries after the
\* duplicates are removed: its entries are matches, each later entry occurs
\* first after the entry before it does, every identifier matched before
\* the last entry is an entry, and the sequence stops short of 100 entries
\* only when every matched identifier is in it. A B A C gives A B C, 150
\* distinct matches give the first 100 in document order, and no match gives
\* the empty sequence with success true.
VideoIdsFirstOccurrenceOrder ==
    ScrapeSucceeded =>
        LET matches == findall(cur.html)
            videoIds == cur.resp.body.json.videoIds
            n == Len(videoIds)
        IN  /\ n <= 100
            /\ Range(videoIds) \subseteq Range(matches)
            /\ \A k \in 1..(n - 1) :
                  FirstIndex(matches, videoIds[k])
                      < FirstIndex(matches, videoIds[k + 1])
            /\ n > 0 =>
                  \A i \in 1..FirstIndex(matches, videoIds[n]) :
                      matches[i] \in Range(videoIds)
            /\ n < 100 => Range(matches) \subseteq Range(videoIds)
            /\ matches = <<1, 2, 1, 3>> => videoIds = <<1, 2, 3>>
            /\ matches = Iota(150) => videoIds = Iota(100)
            /\ matches = <<>> => videoIds = <<>>

\* a page with a repeated identifier among its first 100 matches and more
\* than 100 distinct ones was scraped
LongPageScraped ==
    /\ ScrapeSucceeded
    /\ Len(findall(cur.html)) > 150
    /\ findall(cur.html)[1] = findall(cur.html)[2]
    /\ cur.resp.body.json.videoIds = Iota(100)

----------------------------------------------------------------------------
(* C11 *)

\* the known site-name suffix taken off the end of the text, and nowhere else
SuffixRemovedFromEnd(words) ==
    IF words # <<>> /\ words[Len(words)] = " - YouTube"
    THEN SubSeq(words, 1, Len(words) - 1)
    ELSE words

\* the title elements of the page, in document order
TitleElements(html) == SelectSeq(html, LAMBDA part : part.tag = "title")

\* C11: the playlistName of a successful scrape is the text of the first
\* title element with the site-name suffix removed from its end only and the
\* surrounding whitespace trimmed; without a title element it is the playlist
\* id given in the request.
PlaylistNameSuffixFromEndOnly ==
    ScrapeSucceeded =>
        LET titles == TitleElements(cur.html)
            playlistName == cur.resp.body.json.playlistName
        IN  IF titles = <<>>
            THEN playlistName = <<FirstGiven(cur.req.query, "id")>>
            ELSE playlistName = strip(SuffixRemovedFromEnd(titles[1].text))

====
